---------------------------- MODULE Spec2Model ----------------------------
(***************************************************************************)
(* Model of src/cosmological/cmb_analysis.py (class AEPCMBAnalysis).       *)
(*                                                                         *)
(* Number representation.  The program computes in floating point; TLC     *)
(* has 32-bit integers only.  The model therefore carries                  *)
(*   - map samples and the f_NL values in thousandths ("milli"), products  *)
(*     rounded down at each multiplication;                                *)
(*   - weights, variances, chi-squares and log-evidences as exact          *)
(*     rationals <<num, den>> with den > 0 in lowest terms;                *)
(*   - every quantity the code obtains from math.sqrt by its square (the   *)
(*     name ends in 2: total_error2 is total_error squared); all of them   *)
(*     are non-negative, so the square determines the value and its order; *)
(*   - the Bayes factor by its natural logarithm (log_bayes_factor of      *)
(*     line 222); math.exp is strictly increasing, so "bayes_factor > 3"   *)
(*     is "log_bayes_factor > ln 3".                                       *)
(***************************************************************************)
EXTENDS Integers, Sequences, FiniteSets, TLC

VARIABLES
    aep_params,          \* self.aep_params (the two entries the code reads)
    tape,                \* the generator's output cycle after random.seed(42)
    pos,                 \* uniforms drawn since the last random.seed(42)
    seeded,              \* TRUE iff an analyzer was constructed since the last run began
    pc,                  \* position inside run_aep_analysis
    run_seeded,          \* the value of seeded when the current run began
    start_pos,           \* the value of pos when the current run began
    drawlog,             \* normal samples drawn by the current run, in order
    cmb_base,            \* simulate_cmb_data: cmb_base
    cmb_with_ng,         \* simulate_cmb_data: cmb_with_ng
    noise,               \* simulate_cmb_data: noise of the channel being built
    multi_freq,          \* simulate_cmb_data: multi_freq
    cmb_map,             \* run_aep_analysis: cmb_map
    weights,             \* run_aep_analysis: weights
    f_nl_estimate,       \* run_aep_analysis: f_nl_estimate (milli)
    statistical_error2,  \* run_aep_analysis: statistical_error squared
    included,            \* run_aep_analysis: systematics (names of the included entries)
    systematic_error2,   \* run_aep_analysis: systematic_error squared
    evidence,            \* run_aep_analysis: evidence (the strength text)
    summaries,           \* the summaries returned by the runs so far
    ret,                 \* outcome of a direct call of one method
    calls                \* outcomes of successive aep_statistical_validation calls

vars == <<aep_params, tape, pos, seeded, pc, run_seeded, start_pos, drawlog,
          cmb_base, cmb_with_ng, noise, multi_freq, cmb_map, weights,
          f_nl_estimate, statistical_error2, included, systematic_error2,
          evidence, summaries, ret, calls>>

---------------------------------------------------------------------------
(* Bounds of the model.                                                    *)

\* n_pixels of simulate_cmb_data (line 68), which is 1000 in the source; the
\* model is parametric in it and is checked for small fields.
n_pixels == 3

\* Length of the generator's output cycle.
TapeLen == 5

\* run_aep_analysis calls per behaviour.
MaxRuns == 2

\* Direct calls: channels, pixels, catalog entries, validation calls.
MaxChan == 2
MaxPix == 2
MaxOpts == 2
MaxCalls == 2

---------------------------------------------------------------------------
(* Exact rationals <<num, den>>, den > 0, lowest terms.                    *)

Abs(x) == IF x < 0 THEN -x ELSE x

RECURSIVE GCD(_, _)
GCD(a, b) == IF b = 0 THEN a ELSE GCD(b, a % b)

Rat(n, d) ==
    LET s == IF d < 0 THEN -1 ELSE 1
        g == GCD(Abs(n), Abs(d))
    IN  <<s * (n \div g), s * (d \div g)>>

RZero == <<0, 1>>

RAdd(x, y) ==
    LET g == GCD(x[2], y[2])
        l == (x[2] \div g) * y[2]
    IN  Rat(x[1] * (l \div x[2]) + y[1] * (l \div y[2]), l)

RNeg(x) == <<-x[1], x[2]>>

RSub(x, y) == RAdd(x, RNeg(y))

RMul(x, y) ==
    LET g1 == GCD(Abs(x[1]), y[2])
        g2 == GCD(Abs(y[1]), x[2])
    IN  IF x[1] = 0 \/ y[1] = 0 THEN RZero
        ELSE <<(x[1] \div g1) * (y[1] \div g2), (x[2] \div g2) * (y[2] \div g1)>>

\* y # 0
RDiv(x, y) == RMul(x, Rat(y[2], y[1]))

\* a/b < c/d for a, c >= 0 and b, d > 0, by continued fractions: no product
\* is formed, so no 32-bit overflow.
RECURSIVE PosLess(_, _, _, _)
PosLess(a, b, c, d) ==
    LET q1 == a \div b
        q2 == c \div d
        r1 == a % b
        r2 == c % d
    IN  IF q1 # q2 THEN q1 < q2
        ELSE IF r2 = 0 THEN FALSE
        ELSE IF r1 = 0 THEN TRUE
        ELSE PosLess(d, r2, b, r1)

RLess(x, y) ==
    IF x[1] < 0 /\ y[1] >= 0 THEN TRUE
    ELSE IF x[1] >= 0 /\ y[1] < 0 THEN FALSE
    ELSE IF x[1] >= 0 THEN PosLess(x[1], x[2], y[1], y[2])
    ELSE PosLess(-y[1], y[2], -x[1], x[2])

RAbs(x) == <<Abs(x[1]), x[2]>>

\* v thousandths times the rational w, in thousandths, rounded down.
Scale(w, v) == (w[1] * v) \div w[2]

\* the square of v thousandths
Sq(v) == Rat(v * v, 1000000)

---------------------------------------------------------------------------
(* Outcomes of a call: a returned value or a raised exception.             *)

Return(v) == [kind |-> "return", value |-> v]
Raise(e) == [kind |-> "raise", error |-> e]
None == [kind |-> "none"]

---------------------------------------------------------------------------
(* random: the uniform source.  random.random() returns a float of         *)
(* [0.0, 1.0): a multiple of 2^-53, 0.0 included, 1.0 excluded.  The model *)
(* draws from four of these values.  After random.seed(42) the generator   *)
(* is a fixed sequence; the model lets it be any cycle of TapeLen values.  *)

UniformValues == {"0", "2^-50", "1/4", "1/2"}

Tapes == [1..TapeLen -> UniformValues]

\* the p-th uniform after seeding (p = 0, 1, ...)
Uniform(p) == tape[(p % TapeLen) + 1]

\* random.seed(42): the generator restarts its sequence
SeedKeepsPosition(p) == p

Seed(p) == 0

\* math.sqrt(-2.0 * math.log(u1)) in units of 0.02, for u1 > 0
\* (8.3255, 1.6651, 1.1774)
SqrtNeg2Ln(u1) ==
    CASE u1 = "2^-50" -> 416
      [] u1 = "1/4" -> 83
      [] u1 = "1/2" -> 59

\* math.cos(2.0 * math.pi * u2)
Cos2Pi(u2) ==
    CASE u2 = "0" -> 1
      [] u2 = "2^-50" -> 1
      [] u2 = "1/4" -> 0
      [] u2 = "1/2" -> -1

\* normal_distribution(mean, std) with size == 1, given its two draws;
\* mean in thousandths, std rational, the sample in thousandths.
\* math.log(0.0) raises ValueError (math domain error).
normal_distribution(mean, std, u1, u2) ==
    IF u1 = "0" THEN Raise("ValueError")
    ELSE LET z0 == SqrtNeg2Ln(u1) * Cos2Pi(u2)
         IN  Return(Scale(std, 20 * z0) + mean)

---------------------------------------------------------------------------
(* aep_optimize_parameters                                                 *)

\* dict.get(key, default)
Get(option, key, default) == IF key \in DOMAIN option THEN option[key] ELSE default

\* math.log(n) in millionths, for the counts the model uses
Ln(n) ==
    CASE n = 1 -> 0
      [] n = 2 -> 693147
      [] n = 3 -> 1098612
      [] n = 100 -> 4605170
      [] n = 400 -> 5991465
      [] n = 900 -> 6802395

\* option.get('n_parameters', 1)
NParametersDefault2(option) == Get(option, "n_parameters", 2)

NParameters(option) == Get(option, "n_parameters", 1)

\* lines 49-55: the score as the pair <<info_gain, complexity + 1e-6>>, both in
\* millionths; the score is their quotient.
Score(option) ==
    LET info_gain == Ln(Get(option, "n_modes", 1)) * 2
        complexity == Get(option, "complexity", 1) * Ln(NParameters(option))
    IN  <<info_gain, complexity + 1>>

\* -float('inf')
NegInf == <<-1, 0>>

\* line 57: score > best_score
BetterOrEqual(score, best_score) ==
    \/ best_score = NegInf
    \/ ~PosLess(score[1], score[2], best_score[1], best_score[2])

Better(score, best_score) ==
    \/ best_score = NegInf
    \/ PosLess(best_score[1], best_score[2], score[1], score[2])

PyNone == [py_none |-> TRUE]

\* lines 47-59: the loop from option k on
RECURSIVE OptimizeLoop(_, _, _, _)
OptimizeLoop(options, k, best_option, best_score) ==
    IF k > Len(options) THEN best_option
    ELSE LET score == Score(options[k])
         IN  IF Better(score, best_score)
             THEN OptimizeLoop(options, k + 1, options[k], score)
             ELSE OptimizeLoop(options, k + 1, best_option, best_score)

aep_optimize_parameters(options) == OptimizeLoop(options, 1, PyNone, NegInf)

---------------------------------------------------------------------------
(* aep_component_separation                                                *)

\* line 110: 1.0 / (noise_levels[i] + 0.1)
InverseNoise(noise_level) == RDiv(<<1, 1>>, RAdd(noise_level, <<1, 10>>))

\* line 115: w / total_inverse_noise
NotNormalized(w, total_inverse_noise) == w

Normalized(w, total_inverse_noise) == RDiv(w, total_inverse_noise)

RECURSIVE RSum(_, _)
RSum(s, k) == IF k = 0 THEN RZero ELSE RAdd(RSum(s, k - 1), s[k])

\* line 121: cmb_map[i] accumulated over the first k channels
RECURSIVE Reconstruct(_, _, _, _)
Reconstruct(w, mf, i, k) ==
    IF k = 0 THEN 0 ELSE Reconstruct(w, mf, i, k - 1) + Scale(w[k], mf[k][i])

\* lines 101-126; returns <<cmb_map, weights>> or raises as Python does
aep_component_separation(mf, noise_levels) ==
    IF Len(mf) = 0 THEN Raise("IndexError")                         \* line 102
    ELSE
    LET n_freq == Len(mf)
        n_pix == Len(mf[1])
        bad == {i \in 1..n_freq :
                   \/ i > Len(noise_levels)
                   \/ RAdd(noise_levels[i], <<1, 10>>) = RZero}
        first_bad == CHOOSE i \in bad : \A j \in bad : i <= j
    IN  IF bad # {}
        THEN IF first_bad > Len(noise_levels)
             THEN Raise("IndexError")                               \* line 110
             ELSE Raise("ZeroDivisionError")                        \* line 110
        ELSE
        LET inv == [i \in 1..n_freq |-> InverseNoise(noise_levels[i])]
            total_inverse_noise == RSum(inv, n_freq)
        IN  IF total_inverse_noise = RZero
            THEN Raise("ZeroDivisionError")                         \* line 115
            ELSE
            LET w == [i \in 1..n_freq |-> Normalized(inv[i], total_inverse_noise)]
            IN  IF \E i \in 1..n_pix : \E f \in 1..n_freq : Len(mf[f]) < i
                THEN Raise("IndexError")                            \* line 121
                ELSE Return(<<[i \in 1..n_pix |-> Reconstruct(w, mf, i, n_freq)], w>>)

---------------------------------------------------------------------------
(* Program constants                                                       *)

\* __init__, lines 18-24: f_NL_equil_pred = -0.416, f_NL_equil_uncertainty =
\* 0.08, in thousandths
DefaultParams == [f_NL_equil_pred |-> -416, f_NL_equil_uncertainty |-> 80]

\* simulate_cmb_data, line 69
n_frequencies == 6

\* simulate_cmb_data, line 81: [1.0, 0.8, 0.6, 0.5, 0.7, 1.2]
noise_levels == <<<<1, 1>>, <<4, 5>>, <<3, 5>>, <<1, 2>>, <<7, 10>>, <<6, 5>>>>

\* aep_bispectrum_analysis, lines 137-141
bin_options ==
    << [n_bins |-> 10, complexity |-> 5, n_modes |-> 100],
       [n_bins |-> 20, complexity |-> 8, n_modes |-> 400],
       [n_bins |-> 30, complexity |-> 12, n_modes |-> 900] >>

\* aep_systematic_analysis, lines 168-173; amplitudes in thousandths
systematics ==
    << [name |-> "beam_asymmetry", amplitude |-> 25, complexity |-> 8],
       [name |-> "foreground_residual", amplitude |-> 30, complexity |-> 10],
       [name |-> "point_sources", amplitude |-> 15, complexity |-> 6],
       [name |-> "polarization_leakage", amplitude |-> 10, complexity |-> 7] >>

\* math.log(10), math.log(3): the thresholds of lines 231, 233 and 281 on the
\* logarithm of the Bayes factor
Ln10 == <<2302585, 1000000>>
Ln3 == <<1098612, 1000000>>

---------------------------------------------------------------------------
(* aep_bispectrum_analysis                                                 *)

\* line 153: statistical_error = 2.0 / math.sqrt(n_triangles), squared
StatisticalError2(n_triangles) == Rat(4, n_triangles)

\* lines 143-158, given the two uniforms of its one normal sample; returns
\* <<base_estimate, statistical_error2>>
aep_bispectrum_analysis(u1, u2) ==
    LET optimal_bins == aep_optimize_parameters(bin_options)
        random_variation == normal_distribution(0, <<1, 20>>, u1, u2)
    IN  IF random_variation.kind = "raise" THEN random_variation
        ELSE Return(<<aep_params.f_NL_equil_pred + random_variation.value,
                      StatisticalError2(optimal_bins.n_modes)>>)

---------------------------------------------------------------------------
(* aep_systematic_analysis                                                 *)

\* line 182: threshold = systematic['complexity'] / 300
Threshold(systematic) == Rat(systematic.complexity, 300)

\* line 183: systematic['amplitude'] > threshold
IsIncludedInverted(systematic) ==
    RLess(Rat(systematic.amplitude, 1000), Threshold(systematic))

IsIncluded(systematic) ==
    RLess(Threshold(systematic), Rat(systematic.amplitude, 1000))

\* lines 177-188 over the first k entries: <<names included, total_variance>>
RECURSIVE Budget(_)
Budget(k) ==
    IF k = 0 THEN <<<<>>, RZero>>
    ELSE LET b == Budget(k - 1)
             systematic == systematics[k]
         IN  IF IsIncluded(systematic)
             THEN <<Append(b[1], systematic.name), RAdd(b[2], Sq(systematic.amplitude))>>
             ELSE b

\* lines 168-193: <<included, total_error squared>>; total_error is
\* math.sqrt(total_variance)
aep_systematic_analysis == Budget(Len(systematics))

---------------------------------------------------------------------------
(* aep_statistical_validation and the end of run_aep_analysis              *)

\* line 206: combined_error = sqrt(total_error**2 + aep_uncertainty**2), squared
CombinedError2(total_error2) == RAdd(total_error2, Sq(aep_params.f_NL_equil_uncertainty))

\* line 209
Deviation(estimate) == Abs(estimate - aep_params.f_NL_equil_pred)

\* line 210: chi2_aep = (deviation / combined_error) ** 2
Chi2AepByTotal(estimate, total_error2, combined_error2) ==
    RDiv(Sq(Deviation(estimate)), total_error2)

Chi2Aep(estimate, total_error2, combined_error2) ==
    RDiv(Sq(Deviation(estimate)), combined_error2)

\* line 211: chi2_null = (f_nl_estimate / total_error) ** 2
Chi2Null(estimate, total_error2) == RDiv(Sq(estimate), total_error2)

\* lines 218-222: evidence_aep - evidence_null, penalties 2.0 and 0.0
LogBayesFactor(chi2_aep, chi2_null) ==
    LET evidence_aep == RSub(RMul(<<-1, 2>>, chi2_aep), <<2, 1>>)
        evidence_null == RSub(RMul(<<-1, 2>>, chi2_null), RZero)
    IN  RSub(evidence_aep, evidence_null)

\* lines 231-236
Strength(log_bayes_factor) ==
    IF RLess(Ln10, log_bayes_factor) THEN "Strong evidence for AEP"
    ELSE IF RLess(Ln3, log_bayes_factor) THEN "Substantial evidence for AEP"
    ELSE "Inconclusive"

\* lines 202-240: <<log bayes_factor, strength, combined_error squared>>;
\* a zero total_error makes line 211 divide by zero
aep_statistical_validation(estimate, total_error2) ==
    LET combined_error2 == CombinedError2(total_error2)
    IN  IF combined_error2 = RZero \/ total_error2 = RZero
        THEN Raise("ZeroDivisionError")
        ELSE LET log_bayes_factor ==
                     LogBayesFactor(Chi2Aep(estimate, total_error2, combined_error2),
                                    Chi2Null(estimate, total_error2))
             IN  Return(<<log_bayes_factor, Strength(log_bayes_factor), combined_error2>>)

\* line 264: total_error = sqrt(statistical_error**2 + systematic_error**2), squared
TotalError2(stat2, sys2) == RAdd(stat2, sys2)

\* line 272: compatibility = abs(f_nl_estimate - pred) / combined_error, squared
Compatibility2(estimate, combined_error2) ==
    RDiv(Sq(Deviation(estimate)), combined_error2)

\* lines 281-286: compatibility < 2.0 and bayes_factor > 3.0
ConclusionEither(compatibility2, log_bayes_factor) ==
    IF RLess(compatibility2, <<4, 1>>) \/ RLess(Ln3, log_bayes_factor)
    THEN "VALIDATED" ELSE "DISFAVORED"

Conclusion(compatibility2, log_bayes_factor) ==
    IF RLess(compatibility2, <<4, 1>>) /\ RLess(Ln3, log_bayes_factor)
    THEN "VALIDATED" ELSE "DISFAVORED"

---------------------------------------------------------------------------
(* The pipeline: main() constructs an analyzer and calls run_aep_analysis. *)
(* The program is single-threaded; a step is one normal sample or one      *)
(* stage of run_aep_analysis.                                              *)

NoRun ==
    /\ pc = "idle"
    /\ run_seeded = FALSE
    /\ start_pos = 0
    /\ drawlog = <<>>
    /\ cmb_base = <<>>
    /\ cmb_with_ng = <<>>
    /\ noise = <<>>
    /\ multi_freq = <<>>
    /\ cmb_map = <<>>
    /\ weights = <<>>
    /\ f_nl_estimate = 0
    /\ statistical_error2 = RZero
    /\ included = <<>>
    /\ systematic_error2 = RZero
    /\ evidence = ""
    /\ summaries = <<>>

\* the state after AEPCMBAnalysis() (lines 16-27)
Init ==
    /\ aep_params = DefaultParams
    /\ tape \in Tapes
    /\ pos = 0
    /\ seeded = TRUE
    /\ NoRun
    /\ ret = None
    /\ calls = <<>>

locals == <<cmb_base, cmb_with_ng, noise, multi_freq, cmb_map, weights,
            f_nl_estimate, statistical_error2, included, systematic_error2, evidence>>
harness == <<ret, calls>>

\* lines 32-33: the two random.random() calls of one normal sample
AfterDrawOne(p) == p + 1

AfterDraw(p) == p + 2

\* AEPCMBAnalysis(): lines 16-27, between runs
Construct ==
    /\ pc \in {"idle", "done"}
    /\ aep_params' = DefaultParams
    /\ pos' = Seed(pos)
    /\ seeded' = TRUE
    /\ UNCHANGED <<tape, pc, run_seeded, start_pos, drawlog, locals, summaries, harness>>

\* run_aep_analysis is entered (line 242)
RunStart ==
    /\ pc \in {"idle", "done"}
    /\ Len(summaries) < MaxRuns
    /\ pc' = "base"
    /\ run_seeded' = seeded
    /\ seeded' = FALSE
    /\ start_pos' = pos
    /\ drawlog' = <<>>
    /\ cmb_base' = <<>>
    /\ cmb_with_ng' = <<>>
    /\ noise' = <<>>
    /\ multi_freq' = <<>>
    /\ cmb_map' = <<>>
    /\ weights' = <<>>
    /\ f_nl_estimate' = 0
    /\ statistical_error2' = RZero
    /\ included' = <<>>
    /\ systematic_error2' = RZero
    /\ evidence' = ""
    /\ UNCHANGED <<aep_params, tape, pos, summaries, harness>>

\* line 72: one sample of cmb_base = normal_distribution(0, 1, n_pixels)
DrawBase ==
    /\ pc = "base"
    /\ Len(cmb_base) < n_pixels
    /\ LET z == normal_distribution(0, <<1, 1>>, Uniform(pos), Uniform(pos + 1))
       IN  /\ pos' = AfterDraw(pos)
           /\ drawlog' = Append(drawlog, <<"base", 0>>)
           /\ IF z.kind = "raise"
              THEN pc' = "error" /\ UNCHANGED cmb_base
              ELSE pc' = pc /\ cmb_base' = Append(cmb_base, z.value)
    /\ UNCHANGED <<aep_params, tape, seeded, run_seeded, start_pos, cmb_with_ng, noise,
                   multi_freq, cmb_map, weights, f_nl_estimate, statistical_error2,
                   included, systematic_error2, evidence, summaries, harness>>

\* lines 75-77: non_gaussian = x**2 - 1, cmb_with_ng = x + pred * non_gaussian
AddNonGaussian ==
    /\ pc = "base"
    /\ Len(cmb_base) = n_pixels
    /\ cmb_with_ng' =
          [i \in 1..n_pixels |->
              LET x == cmb_base[i]
                  non_gaussian == ((x * x) \div 1000) - 1000
              IN  x + Scale(<<aep_params.f_NL_equil_pred, 1000>>, non_gaussian)]
    /\ pc' = "noise"
    /\ UNCHANGED <<aep_params, tape, pos, seeded, run_seeded, start_pos, drawlog, cmb_base,
                   noise, multi_freq, cmb_map, weights, f_nl_estimate, statistical_error2,
                   included, systematic_error2, evidence, summaries, harness>>

\* line 84: one sample of noise = normal_distribution(0, noise_levels[i], n_pixels)
DrawNoise ==
    /\ pc = "noise"
    /\ Len(noise) < n_pixels
    /\ LET i == Len(multi_freq)
           z == normal_distribution(0, noise_levels[i + 1], Uniform(pos), Uniform(pos + 1))
       IN  /\ pos' = AfterDraw(pos)
           /\ drawlog' = Append(drawlog, <<"noise", i>>)
           /\ IF z.kind = "raise"
              THEN pc' = "error" /\ UNCHANGED noise
              ELSE pc' = pc /\ noise' = Append(noise, z.value)
    /\ UNCHANGED <<aep_params, tape, seeded, run_seeded, start_pos, cmb_base, cmb_with_ng,
                   multi_freq, cmb_map, weights, f_nl_estimate, statistical_error2,
                   included, systematic_error2, evidence, summaries, harness>>

\* lines 85-86: freq_map = cmb_with_ng + noise is appended; after the last
\* channel simulate_cmb_data returns (line 91)
FinishChannel ==
    /\ pc = "noise"
    /\ Len(noise) = n_pixels
    /\ multi_freq' = Append(multi_freq, [j \in 1..n_pixels |-> cmb_with_ng[j] + noise[j]])
    /\ noise' = <<>>
    /\ pc' = IF Len(multi_freq) + 1 = n_frequencies THEN "separation" ELSE "noise"
    /\ UNCHANGED <<aep_params, tape, pos, seeded, run_seeded, start_pos, drawlog, cmb_base,
                   cmb_with_ng, cmb_map, weights, f_nl_estimate, statistical_error2,
                   included, systematic_error2, evidence, summaries, harness>>

\* line 255: cmb_map, weights = self.aep_component_separation(multi_freq, noise_levels)
Separation ==
    /\ pc = "separation"
    /\ LET r == aep_component_separation(multi_freq, noise_levels)
       IN  IF r.kind = "raise"
           THEN pc' = "error" /\ UNCHANGED <<cmb_map, weights>>
           ELSE pc' = "bispectrum" /\ cmb_map' = r.value[1] /\ weights' = r.value[2]
    /\ UNCHANGED <<aep_params, tape, pos, seeded, run_seeded, start_pos, drawlog, cmb_base,
                   cmb_with_ng, noise, multi_freq, f_nl_estimate, statistical_error2,
                   included, systematic_error2, evidence, summaries, harness>>

\* line 258: f_nl_estimate, statistical_error = self.aep_bispectrum_analysis(cmb_map)
Bispectrum ==
    /\ pc = "bispectrum"
    /\ LET r == aep_bispectrum_analysis(Uniform(pos), Uniform(pos + 1))
       IN  /\ pos' = AfterDraw(pos)
           /\ drawlog' = Append(drawlog, <<"measurement", 0>>)
           /\ IF r.kind = "raise"
              THEN pc' = "error" /\ UNCHANGED <<f_nl_estimate, statistical_error2>>
              ELSE /\ pc' = "systematic"
                   /\ f_nl_estimate' = r.value[1]
                   /\ statistical_error2' = r.value[2]
    /\ UNCHANGED <<aep_params, tape, seeded, run_seeded, start_pos, cmb_base, cmb_with_ng,
                   noise, multi_freq, cmb_map, weights, included, systematic_error2,
                   evidence, summaries, harness>>

\* line 261: systematics, systematic_error = self.aep_systematic_analysis()
Systematic ==
    /\ pc = "systematic"
    /\ included' = aep_systematic_analysis[1]
    /\ systematic_error2' = aep_systematic_analysis[2]
    /\ pc' = "validation"
    /\ UNCHANGED <<aep_params, tape, pos, seeded, run_seeded, start_pos, drawlog, cmb_base,
                   cmb_with_ng, noise, multi_freq, cmb_map, weights, f_nl_estimate,
                   statistical_error2, evidence, summaries, harness>>

\* lines 264-294: total_error, the validation, compatibility, the conclusion
\* and the returned summary
Validation ==
    /\ pc = "validation"
    /\ LET total_error2 == TotalError2(statistical_error2, systematic_error2)
           r == aep_statistical_validation(f_nl_estimate, total_error2)
       IN  IF r.kind = "raise"
           THEN pc' = "error" /\ UNCHANGED <<evidence, summaries>>
           ELSE LET bayes_factor == r.value[1]
                    combined_error2 == r.value[3]
                    compatibility2 == Compatibility2(f_nl_estimate, combined_error2)
                IN  /\ pc' = "done"
                    /\ evidence' = r.value[2]
                    /\ summaries' = Append(summaries,
                          [seeded |-> run_seeded,
                           f_nl_estimate |-> f_nl_estimate,
                           total_error2 |-> total_error2,
                           compatibility2 |-> compatibility2,
                           log_bayes_factor |-> bayes_factor,
                           conclusion |-> Conclusion(compatibility2, bayes_factor)])
    /\ UNCHANGED <<aep_params, tape, pos, seeded, run_seeded, start_pos, drawlog, cmb_base,
                   cmb_with_ng, noise, multi_freq, cmb_map, weights, f_nl_estimate,
                   statistical_error2, included, systematic_error2, harness>>

Next ==
    \/ Construct
    \/ RunStart
    \/ DrawBase
    \/ AddNonGaussian
    \/ DrawNoise
    \/ FinishChannel
    \/ Separation
    \/ Bispectrum
    \/ Systematic
    \/ Validation

Spec == Init /\ [][Next]_vars

---------------------------------------------------------------------------
(* Direct calls of the public methods on a constructed analyzer, with      *)
(* arguments from bounded sets.                                            *)

SeqsUpTo(S, n) == UNION {[1..k -> S] : k \in 0..n}

\* channel maps: up to MaxPix samples (thousandths) each, up to MaxChan maps
PixelValues == {0, 1000}
ChannelLists == SeqsUpTo(SeqsUpTo(PixelValues, MaxPix), MaxChan)

\* noise levels -0.1, 0, 0.5, 1.0
NoiseSet == {<<-1, 10>>, <<0, 1>>, <<1, 2>>, <<1, 1>>}
NoiseLists == SeqsUpTo(NoiseSet, MaxChan)

\* options with and without the 'n_parameters' key; counts >= 1, costs >= 0
OptionSet ==
    {[complexity |-> c, n_modes |-> m] : c \in {5, 12}, m \in {1, 100, 900}}
    \cup {[complexity |-> c, n_modes |-> m, n_parameters |-> p] :
             c \in {5, 12}, m \in {1, 100, 900}, p \in {2, 3}}
Catalogs == SeqsUpTo(OptionSet, MaxOpts) \cup {bin_options}

\* arguments of aep_statistical_validation: estimates in thousandths, squared
\* total errors (0, 1/15 squared, 0.1 squared), prediction uncertainties
Estimates == {-832, -416, -333, 0}
TotalErrors2 == {RZero, <<1, 225>>, <<1, 100>>}
Uncertainties == {0, 80, 160}

InitApi ==
    /\ aep_params = DefaultParams
    /\ tape = [i \in 1..TapeLen |-> "1/2"]
    /\ pos = 0
    /\ seeded = TRUE
    /\ NoRun
    /\ ret = None
    /\ calls = <<>>

pipeline == <<tape, pos, seeded, pc, run_seeded, start_pos, drawlog, locals, summaries>>

\* analyzer.aep_component_separation(mf, nl)
CallSeparation ==
    /\ ret = None
    /\ \E mf \in ChannelLists : \E nl \in NoiseLists :
          ret' = [call |-> "aep_component_separation", multi_freq |-> mf,
                  noise_levels |-> nl, out |-> aep_component_separation(mf, nl)]
    /\ UNCHANGED <<aep_params, pipeline, calls>>

\* analyzer.aep_optimize_parameters(options)
CallOptimize ==
    /\ ret = None
    /\ \E options \in Catalogs :
          ret' = [call |-> "aep_optimize_parameters", options |-> options,
                  out |-> Return(aep_optimize_parameters(options))]
    /\ UNCHANGED <<aep_params, pipeline, calls>>

NextApi == CallSeparation \/ CallOptimize

ApiSpec == InitApi /\ [][NextApi]_vars

\* analyzer.aep_params['f_NL_equil_uncertainty'] = u
SetUncertainty ==
    /\ \E u \in Uncertainties :
          aep_params' = [aep_params EXCEPT !.f_NL_equil_uncertainty = u]
    /\ UNCHANGED <<pipeline, ret, calls>>

\* analyzer.aep_statistical_validation(estimate, total_error), followed by the
\* compatibility of line 272
CallValidation ==
    /\ Len(calls) < MaxCalls
    /\ \E estimate \in Estimates : \E total_error2 \in TotalErrors2 :
          LET r == aep_statistical_validation(estimate, total_error2)
          IN  calls' = Append(calls,
                 [f_nl_estimate |-> estimate, total_error2 |-> total_error2,
                  out |-> r,
                  compatibility2 |->
                      IF r.kind = "return" THEN Compatibility2(estimate, r.value[3])
                      ELSE RZero])
    /\ UNCHANGED <<aep_params, pipeline, ret>>

NextVal == SetUncertainty \/ CallValidation

ValSpec == InitApi /\ [][NextVal]_vars

---------------------------------------------------------------------------
(* Claims                                                                  *)

Range(s) == {s[i] : i \in 1..Len(s)}

\* the systematic budget of the current run has been computed
BudgetDone == pc \in {"validation", "done"}

\* C1 as stated: the systematic budget includes exactly beam_asymmetry and
\* foreground_residual, and the total systematic error is about 0.0391 (its
\* square lies between 0.03905 squared and 0.03915 squared).
C1_IncludesTwo ==
    BudgetDone =>
        /\ Range(included) = {"beam_asymmetry", "foreground_residual"}
        /\ RLess(<<15249, 10000000>>, systematic_error2)
        /\ RLess(systematic_error2, <<15328, 10000000>>)

\* C1 amended: with the rule "include iff amplitude > complexity / 300" no
\* entry of the catalog is included (0.025 < 8/300, 0.030 < 10/300,
\* 0.015 < 6/300, 0.010 < 7/300), and the total systematic error is 0.
C1_IncludesNone ==
    BudgetDone => included = <<>> /\ systematic_error2 = RZero

C1_Witness == pc = "validation" /\ included = <<>>

\* the summary a run returned, without the bookkeeping of how the run began
Summary(r) == [f_nl_estimate |-> r.f_nl_estimate, total_error2 |-> r.total_error2,
               compatibility2 |-> r.compatibility2,
               log_bayes_factor |-> r.log_bayes_factor, conclusion |-> r.conclusion]

\* C2 as stated: any two runs return identical summaries, two successive
\* run_aep_analysis calls on one analyzer included.
C2_AllRunsAgree ==
    \A i, j \in 1..Len(summaries) : Summary(summaries[i]) = Summary(summaries[j])

\* C2 amended: any two runs that each begin right after an analyzer was
\* constructed (which seeds the generator) return identical summaries.
C2_SeededRunsAgree ==
    \A i, j \in 1..Len(summaries) :
        summaries[i].seeded /\ summaries[j].seeded
            => Summary(summaries[i]) = Summary(summaries[j])

C2_Witness ==
    /\ Len(summaries) >= 2
    /\ summaries[1].seeded
    /\ summaries[2].seeded

IsCall(name) == "call" \in DOMAIN ret /\ ret.call = name

\* C3: a malformed call (no channel, channel maps of unequal lengths, an
\* empty catalog) raises and returns no value.
C3_MalformedRaises ==
    /\ (/\ IsCall("aep_component_separation")
        /\ \/ Len(ret.multi_freq) = 0
           \/ \E f \in 1..Len(ret.multi_freq) :
                 Len(ret.multi_freq[f]) # Len(ret.multi_freq[1]))
          => ret.out.kind = "raise"
    /\ (IsCall("aep_optimize_parameters") /\ Len(ret.options) = 0)
          => ret.out.kind = "raise"

\* two returned validations of the same estimate and total_error, the second
\* with the larger combined_error
Increased(i, j) ==
    /\ calls[i].out.kind = "return"
    /\ calls[j].out.kind = "return"
    /\ calls[i].f_nl_estimate = calls[j].f_nl_estimate
    /\ calls[i].total_error2 = calls[j].total_error2
    /\ RLess(calls[i].out.value[3], calls[j].out.value[3])

\* C4 as stated: a larger combined_error gives a strictly smaller
\* compatibility and a Bayes factor nearer to 1 (a logarithm nearer to 0).
C4_TowardParity ==
    \A i, j \in 1..Len(calls) :
        Increased(i, j) =>
            /\ RLess(calls[j].compatibility2, calls[i].compatibility2)
            /\ RLess(RAbs(calls[j].out.value[1]), RAbs(calls[i].out.value[1]))

\* C4 amended: a larger combined_error never increases the compatibility and
\* never decreases the Bayes factor, and changes both strictly when the
\* estimate differs from the prediction; the Bayes factor moves up, which is
\* toward 1 only while it is below 1.
C4_Monotone ==
    \A i, j \in 1..Len(calls) :
        Increased(i, j) =>
            IF calls[i].f_nl_estimate = aep_params.f_NL_equil_pred
            THEN /\ calls[j].compatibility2 = calls[i].compatibility2
                 /\ calls[j].out.value[1] = calls[i].out.value[1]
            ELSE /\ RLess(calls[j].compatibility2, calls[i].compatibility2)
                 /\ RLess(calls[i].out.value[1], calls[j].out.value[1])

C4_Witness ==
    /\ Len(calls) >= 2
    /\ Increased(1, 2)
    /\ calls[1].f_nl_estimate # aep_params.f_NL_equil_pred
    /\ RLess(RZero, calls[1].out.value[1])

\* a non-empty list of equally long channel maps, one positive noise level each
WellFormedChannels ==
    /\ IsCall("aep_component_separation")
    /\ Len(ret.multi_freq) > 0
    /\ Len(ret.noise_levels) = Len(ret.multi_freq)
    /\ \A f \in 1..Len(ret.multi_freq) : Len(ret.multi_freq[f]) = Len(ret.multi_freq[1])
    /\ \A f \in 1..Len(ret.noise_levels) : RLess(RZero, ret.noise_levels[f])

\* C5: for a non-empty list of channels with positive noise levels the
\* separator returns one weight per channel, every weight positive, the
\* weights summing to 1, each 1/(noise_level + 0.1) over the sum of these.
C5_Weights ==
    WellFormedChannels =>
        /\ ret.out.kind = "return"
        /\ LET w == ret.out.value[2]
               n == Len(ret.multi_freq)
               inv == [f \in 1..n |-> RDiv(<<1, 1>>, RAdd(ret.noise_levels[f], <<1, 10>>))]
           IN  /\ Len(w) = n
               /\ \A f \in 1..n : RLess(RZero, w[f])
               /\ RSum(w, n) = <<1, 1>>
               /\ \A f \in 1..n : w[f] = RDiv(inv[f], RSum(inv, n))

C5_Witness ==
    /\ WellFormedChannels
    /\ Len(ret.multi_freq) = 2
    /\ ret.noise_levels[1] # ret.noise_levels[2]
    /\ ret.out.kind = "return"

ScoreLess(a, b) == PosLess(Score(a)[1], Score(a)[2], Score(b)[1], Score(b)[2])

\* C6: for a non-empty catalog the scorer returns an option of maximal score,
\* and the first such option in iteration order.
C6_FirstMaximum ==
    (IsCall("aep_optimize_parameters") /\ Len(ret.options) > 0) =>
        \E k \in 1..Len(ret.options) :
            /\ ret.out.value = ret.options[k]
            /\ \A j \in 1..Len(ret.options) : ~ScoreLess(ret.options[k], ret.options[j])
            /\ \A j \in 1..(k - 1) : ScoreLess(ret.options[j], ret.options[k])

\* two different options tie for the maximum and the first is returned
C6_Witness ==
    /\ IsCall("aep_optimize_parameters")
    /\ Len(ret.options) = 2
    /\ ret.options[1] # ret.options[2]
    /\ ~ScoreLess(ret.options[1], ret.options[2])
    /\ ~ScoreLess(ret.options[2], ret.options[1])
    /\ ret.out.value = ret.options[1]

\* C7: a run's conclusion is "VALIDATED" exactly when compatibility < 2
\* (its square < 4) and bayes_factor > 3 (its logarithm > ln 3), and is
\* "DISFAVORED" otherwise, whatever the evidence strength.
C7_Conclusion ==
    \A i \in 1..Len(summaries) :
        LET r == summaries[i]
            both == RLess(r.compatibility2, <<4, 1>>) /\ RLess(Ln3, r.log_bayes_factor)
        IN  /\ r.conclusion \in {"VALIDATED", "DISFAVORED"}
            /\ r.conclusion = "VALIDATED" <=> both

\* a run ends DISFAVORED although its evidence is classified as strong
C7_Witness ==
    /\ pc = "done"
    /\ evidence = "Strong evidence for AEP"
    /\ summaries[Len(summaries)].conclusion = "DISFAVORED"

RECURSIVE Repeat(_, _)
Repeat(x, n) == IF n = 0 THEN <<>> ELSE Append(Repeat(x, n - 1), x)

RECURSIVE NoiseSchedule(_)
NoiseSchedule(k) ==
    IF k = 0 THEN <<>> ELSE NoiseSchedule(k - 1) \o Repeat(<<"noise", k - 1>>, n_pixels)

\* the normal samples of one run, in order
Schedule ==
    Repeat(<<"base", 0>>, n_pixels) \o NoiseSchedule(6) \o <<<<"measurement", 0>>>>

\* C8: within a run the samples are drawn in the order of Schedule (the
\* baseline field, the noise of channels 0 to 5 in turn, then the one
\* measurement draw, after component separation), each sample takes two
\* uniforms, no other stage draws (from the start of a run until the generator
\* is next seeded, the uniforms consumed are twice the samples logged), and a
\* run that reaches the systematic budget has drawn all of Schedule.
C8_DrawOrder ==
    /\ Len(drawlog) <= Len(Schedule)
    /\ drawlog = SubSeq(Schedule, 1, Len(drawlog))
    /\ ~seeded => pos - start_pos = 2 * Len(drawlog)
    /\ Len(drawlog) = Len(Schedule) => weights # <<>>
    /\ pc \in {"systematic", "validation", "done"} => drawlog = Schedule

C8_Witness ==
    /\ pc = "validation"
    /\ drawlog = Schedule
    /\ pos - start_pos = 2 * (7 * n_pixels + 1)
    /\ start_pos > 0

\* C9: no normal sample fails: no run ends in an exception.
C9_NoErrorCondition == pc # "error"

NoParametersKey(options) ==
    \A k \in 1..Len(options) : "n_parameters" \notin DOMAIN options[k]

\* C10: when no option has an 'n_parameters' key the scorer returns the first
\* option with the largest n_modes whatever the complexity costs; for the
\* pipeline's catalog that is the 30-bin, 900-mode option, and the squared
\* statistical error is 4/900.
C10_LargestModeCount ==
    (/\ IsCall("aep_optimize_parameters")
     /\ Len(ret.options) > 0
     /\ NoParametersKey(ret.options)) =>
        /\ \E k \in 1..Len(ret.options) :
              /\ ret.out.value = ret.options[k]
              /\ \A j \in 1..Len(ret.options) : ret.options[j].n_modes <= ret.options[k].n_modes
              /\ \A j \in 1..(k - 1) : ret.options[j].n_modes < ret.options[k].n_modes
        /\ ret.options = bin_options =>
              /\ ret.out.value.n_bins = 30
              /\ ret.out.value.n_modes = 900
              /\ StatisticalError2(ret.out.value.n_modes) = <<1, 225>>

C10_Witness ==
    /\ IsCall("aep_optimize_parameters")
    /\ ret.options = bin_options
    /\ ret.out.value = bin_options[3]

===========================================================================
